---- MODULE Spec2Model ----
(***************************************************************************)
(* Model of the LinePod debugger relays.                                   *)
(*                                                                         *)
(*   SpecServer  src/io/server.py          debug / emulation server        *)
(*   SpecBridge  src/gpgl_input/bridge.py  plain TCP <-> WebSocket bridge  *)
(*                                                                         *)
(* Every task of the asyncio event loop is a process with a position; one  *)
(* action is the code a task runs between two awaits.  An await is a point *)
(* where any other task may run.  A task that ends with an uncaught        *)
(* exception is "crashed" and the exception's type is kept in wsExc/tcpExc. *)
(***************************************************************************)
EXTENDS Integers, Sequences, FiniteSets, TLC

\* ---------------------------------------------------------------- bounds
MaxWs == 3        \* WebSocket connections accepted in a run
MaxTcp == 2       \* registry TCP connections accepted in a run
MaxRaw == 1       \* raw command port connections accepted in a run
MaxEvents == 8    \* inputs the environment delivers in a run
MaxSvgLen == 2    \* largest payload length a job frame announces
MaxFrames == 2    \* frames a client sends back to back on one connection
MaxTokens == 2    \* different job tokens
BigPayload == 1048576   \* the large payload length, 2^20

\* ------------------------------------------------------ program constants
TOKEN_LEN == 36
LEN_BYTES == 4
CLOSE_NORMAL == 1000
CLOSE_GOING_AWAY == 1001

OK_WS_CLOSE_CODES == {CLOSE_NORMAL, CLOSE_GOING_AWAY}
\* Close codes the browser closes with: one of the expected codes, and 1006
\* (abnormal closure) for the codes outside OK_WS_CLOSE_CODES.
CloseCodes == {CLOSE_GOING_AWAY, 1006}

WsIds == 1..MaxWs
TcpIds == 1..MaxTcp
RawIds == (MaxTcp + 1)..(MaxTcp + MaxRaw)
ProdIds == TcpIds \cup RawIds

VARIABLES
    ws_connections,    \* the WebSocket registry, a Python list
    tcp_connections,   \* the TCP registry, a Python list
    wsSock,            \* transport of each WebSocket: "unborn", "open", "closed"
    wsCode,            \* close code of a closed WebSocket, 0 before
    close_event,       \* WsConnection.close_event
    wsTask,            \* position of each WebSocket forwarder task
    wsAccept,          \* position of each accept_ws_connection handler
    wsLog,             \* log levels each WebSocket closure was reported at
    wsInbox,           \* messages sent to each WebSocket, in order
    wsRemoves,         \* number of ws_connections.remove calls per connection
    tcpTask,           \* position of each TCP-side task
    tcpPeer,           \* peer side of each TCP transport: "unborn", "open", "closed"
    svg_len,           \* payload length of the frame being read
    tcpLog,            \* log lines about each TCP connection's end
    tcpEnd,            \* how a TCP connection's input was seen to end
    tcpInbox,          \* messages written to each TCP connection, in order
    tcpRemoves,        \* number of tcp_connections.remove calls per connection
    nRead,             \* messages each TCP-side producer has read
    nRecv,             \* messages each WebSocket forwarder has received
    bc,                \* locals of the broadcast loop of each TCP-side task
    fw,                \* locals of the write loop of each WebSocket forwarder
    wsExc,             \* exception that ended a WebSocket forwarder, "" if none
    tcpExc,            \* exception that ended a TCP-side task, "" if none
    events,            \* inputs the environment has delivered so far
    tcpSteady,         \* ws_connections is as it was when the producer first read
    wsSteady,          \* tcp_connections is as it was when the producer first received
    wire               \* one job-port byte stream: the client's frames, the reader

relayVars == <<ws_connections, tcp_connections, wsSock, wsCode, close_event, wsTask,
               wsAccept, wsLog, wsInbox, wsRemoves, tcpTask, tcpPeer, svg_len, tcpLog,
               tcpEnd, tcpInbox, tcpRemoves, nRead, nRecv, bc, fw, wsExc, tcpExc, events,
               tcpSteady, wsSteady>>

vars == <<relayVars, wire>>


\* ------------------------------------------------------------ Python lists
Contains(list, x) == \E i \in 1..Len(list) : list[i] = x

IndexOf(list, x) ==
    CHOOSE i \in 1..Len(list) : list[i] = x /\ \A j \in 1..(i - 1) : list[j] # x

\* list.remove(x) for x in list (ValueError otherwise, see RemoveClosed)
ListRemove(list, x) ==
    LET i == IndexOf(list, x)
    IN SubSeq(list, 1, i - 1) \o SubSeq(list, i + 1, Len(list))

\* `for c in closed: ws_connections.remove(c)`: the list after the removes that
\* succeeded, whether a remove raised ValueError, and the removes called.
RECURSIVE RemoveClosed(_, _, _)
RemoveClosed(list, closed, called) ==
    IF closed = <<>> THEN [list |-> list, raised |-> FALSE, called |-> called]
    ELSE IF ~Contains(list, Head(closed))
         THEN [list |-> list, raised |-> TRUE, called |-> called \cup {Head(closed)}]
         ELSE RemoveClosed(ListRemove(list, Head(closed)), Tail(closed),
                           called \cup {Head(closed)})

\* ------------------------------------------------------------ close handling
WsCloseLevel(code) == IF code \notin OK_WS_CLOSE_CODES THEN "warning" ELSE "info"

\* Locals of a broadcast loop that is not running.  idx, cur, data and closed are
\* the loop's variables: the list iterator's index, the connection being sent
\* to, the payload and the `closed` list.  The rest records the broadcast for
\* the properties: conv the outcome of the conversion before it, snap the
\* registry when it began, got the connections sent to, failed those whose send
\* raised, dereg those their own forwarder removed while it ran.
NoBc == [idx |-> 0, cur |-> 0, data |-> <<>>, closed |-> <<>>, conv |-> "",
         snap |-> <<>>, got |-> {}, failed |-> {}, dereg |-> {}]
NoFw == [idx |-> 0, cur |-> 0, data |-> <<>>,
         snap |-> <<>>, got |-> {}, failed |-> {}, dereg |-> {}]

\* The byte stream of the frame reader while no stream is looked at.
NoWire == [frames |-> <<>>, arrived |-> 0, eof |-> FALSE, pos |-> 0, phase |-> "token",
           svg_uuid |-> <<>>, svg_len |-> 0, jobs |-> <<>>]

InitRelay ==
    /\ ws_connections = <<>>
    /\ tcp_connections = <<>>
    /\ wsSock = [c \in WsIds |-> "unborn"]
    /\ wsCode = [c \in WsIds |-> 0]
    /\ close_event = [c \in WsIds |-> FALSE]
    /\ wsTask = [c \in WsIds |-> "unborn"]
    /\ wsAccept = [c \in WsIds |-> "unborn"]
    /\ wsLog = [c \in WsIds |-> {}]
    /\ wsInbox = [c \in WsIds |-> <<>>]
    /\ wsRemoves = [c \in WsIds |-> 0]
    /\ tcpTask = [t \in ProdIds |-> "unborn"]
    /\ tcpPeer = [t \in ProdIds |-> "unborn"]
    /\ svg_len = [t \in ProdIds |-> 0]
    /\ tcpLog = [t \in ProdIds |-> {}]
    /\ tcpEnd = [t \in ProdIds |-> "none"]
    /\ tcpInbox = [t \in ProdIds |-> <<>>]
    /\ tcpRemoves = [t \in ProdIds |-> 0]
    /\ nRead = [t \in ProdIds |-> 0]
    /\ nRecv = [c \in WsIds |-> 0]
    /\ bc = [t \in ProdIds |-> NoBc]
    /\ fw = [c \in WsIds |-> NoFw]
    /\ wsExc = [c \in WsIds |-> ""]
    /\ tcpExc = [t \in ProdIds |-> ""]
    /\ events = 0
    /\ tcpSteady = [t \in ProdIds |-> TRUE]
    /\ wsSteady = [c \in WsIds |-> TRUE]

Init == InitRelay /\ wire = NoWire

\* A producer's registry of consumers stays steady until it changes after the
\* producer took its first message.
SteadyUpdate ==
    /\ tcpSteady' = [t \in ProdIds |->
                       tcpSteady[t] /\ (nRead[t] = 0 \/ ws_connections' = ws_connections)]
    /\ wsSteady' = [c \in WsIds |->
                      wsSteady[c] /\ (nRecv[c] = 0 \/ tcp_connections' = tcp_connections)]

\* The connection an accept callback creates: ids are handed out in order.
NextWs == CHOOSE c \in WsIds : wsSock[c] = "unborn" /\ \A d \in 1..(c - 1) : wsSock[d] # "unborn"
NextTcp(ids) ==
    CHOOSE t \in ids : tcpTask[t] = "unborn" /\ \A d \in ids : d < t => tcpTask[d] # "unborn"

\* -------------------------------------------------- WebSocket side (shared)
\* accept_ws_connection up to its await: register, start the forwarder.
AcceptWs ==
    /\ events < MaxEvents
    /\ events' = events + 1
    /\ \E c \in WsIds : wsSock[c] = "unborn"
    /\ LET c == NextWs IN
        /\ ws_connections' = Append(ws_connections, c)
        /\ wsSock' = [wsSock EXCEPT ![c] = "open"]
        /\ close_event' = [close_event EXCEPT ![c] = FALSE]
        /\ wsTask' = [wsTask EXCEPT ![c] = "recv"]
        /\ wsAccept' = [wsAccept EXCEPT ![c] = "waiting"]
    /\ UNCHANGED <<tcp_connections, wsCode, wsLog, wsInbox, wsRemoves, tcpTask, tcpPeer,
                   svg_len, tcpLog, tcpEnd, tcpInbox, tcpRemoves, nRead, nRecv, bc, fw,
                   wsExc, tcpExc>>
    /\ SteadyUpdate
    /\ UNCHANGED wire

\* `await connection.close_event.wait()` returns once the event is set.
AcceptWsReturn(c) ==
    /\ UNCHANGED events
    /\ wsAccept[c] = "waiting"
    /\ close_event[c]
    /\ wsAccept' = [wsAccept EXCEPT ![c] = "returned"]
    /\ UNCHANGED <<ws_connections, tcp_connections, wsSock, wsCode, close_event, wsTask,
                   wsLog, wsInbox, wsRemoves, tcpTask, tcpPeer, svg_len, tcpLog, tcpEnd,
                   tcpInbox, tcpRemoves, nRead, nRecv, bc, fw, wsExc, tcpExc>>
    /\ SteadyUpdate
    /\ UNCHANGED wire

\* The browser closes its WebSocket with some close code (environment).
WsPeerClose(c, code) ==
    /\ events < MaxEvents
    /\ events' = events + 1
    /\ wsSock[c] = "open"
    /\ wsSock' = [wsSock EXCEPT ![c] = "closed"]
    /\ wsCode' = [wsCode EXCEPT ![c] = code]
    /\ UNCHANGED <<ws_connections, tcp_connections, close_event, wsTask, wsAccept, wsLog,
                   wsInbox, wsRemoves, tcpTask, tcpPeer, svg_len, tcpLog, tcpEnd, tcpInbox,
                   tcpRemoves, nRead, nRecv, bc, fw, wsExc, tcpExc>>
    /\ SteadyUpdate
    /\ UNCHANGED wire

\* A broadcast that is under way notes a consumer its forwarder deregisters.
NoteDereg(b, c) == [b EXCEPT !.dereg = @ \cup {c}]

\* A forwarder whose except clause handles the expected close codes only: on
\* any other code it logs and returns, leaving the event unset and the
\* connection registered.
WsRecvClosedExpectedOnly(c) ==
    /\ UNCHANGED events
    /\ wsTask[c] = "recv"
    /\ wsSock[c] = "closed"
    /\ wsLog' = [wsLog EXCEPT ![c] = @ \cup {IF wsCode[c] \in OK_WS_CLOSE_CODES
                                              THEN "info" ELSE "warning"}]
    /\ IF wsCode[c] \in OK_WS_CLOSE_CODES /\ Contains(ws_connections, c)
       THEN /\ close_event' = [close_event EXCEPT ![c] = TRUE]
            /\ wsRemoves' = [wsRemoves EXCEPT ![c] = @ + 1]
            /\ ws_connections' = ListRemove(ws_connections, c)
       ELSE UNCHANGED <<close_event, wsRemoves, ws_connections>>
    /\ wsTask' = [wsTask EXCEPT ![c] = "done"]
    /\ UNCHANGED <<tcp_connections, wsSock, wsCode, wsAccept, wsInbox, tcpTask, tcpPeer,
                   svg_len, tcpLog, tcpEnd, tcpInbox, tcpRemoves, nRead, nRecv, fw, tcpExc,
                   wsExc, bc>>
    /\ SteadyUpdate
    /\ UNCHANGED wire

\* recv() raises ConnectionClosed: classify, set the event, remove, return.
WsRecvClosed(c) ==
    /\ UNCHANGED events
    /\ wsTask[c] = "recv"
    /\ wsSock[c] = "closed"
    /\ close_event' = [close_event EXCEPT ![c] = TRUE]
    /\ wsLog' = [wsLog EXCEPT ![c] = @ \cup {WsCloseLevel(wsCode[c])}]
    /\ wsRemoves' = [wsRemoves EXCEPT ![c] = @ + 1]
    /\ IF Contains(ws_connections, c)
       THEN /\ ws_connections' = ListRemove(ws_connections, c)
            /\ wsTask' = [wsTask EXCEPT ![c] = "done"]
            /\ wsExc' = wsExc
            /\ bc' = [t \in ProdIds |->
                        IF tcpTask[t] = "send" THEN NoteDereg(bc[t], c) ELSE bc[t]]
       ELSE /\ wsTask' = [wsTask EXCEPT ![c] = "crashed"]
            /\ wsExc' = [wsExc EXCEPT ![c] = "ValueError"]
            /\ UNCHANGED <<ws_connections, bc>>
    /\ UNCHANGED <<tcp_connections, wsSock, wsCode, wsAccept, wsInbox, tcpTask, tcpPeer,
                   svg_len, tcpLog, tcpEnd, tcpInbox, tcpRemoves, nRead, nRecv, fw, tcpExc>>
    /\ SteadyUpdate
    /\ UNCHANGED wire

\* ------------------------------------------------ io/server.py: WebSocket data
\* handle_websocket_data, one received message: encode and write to every
\* emulator TCP connection, with no await in between.
\* A write loop that starts behind the first connection of the registry.
WriteToAllSkipFirst(inbox, list, msg) ==
    [t \in ProdIds |->
        IF Contains(SubSeq(list, 2, Len(list)), t) THEN Append(inbox[t], msg)
        ELSE inbox[t]]

WriteToAll(inbox, list, msg) ==
    [t \in ProdIds |-> IF Contains(list, t) THEN Append(inbox[t], msg) ELSE inbox[t]]

HandleWebsocketData(c) ==
    /\ events < MaxEvents
    /\ events' = events + 1
    /\ wsTask[c] = "recv"
    /\ wsSock[c] = "open"
    /\ nRecv' = [nRecv EXCEPT ![c] = @ + 1]
    /\ tcpInbox' = WriteToAll(tcpInbox, tcp_connections, <<c, nRecv[c] + 1>>)
    /\ UNCHANGED <<ws_connections, tcp_connections, wsSock, wsCode, close_event, wsTask,
                   wsAccept, wsLog, wsInbox, wsRemoves, tcpTask, tcpPeer, svg_len, tcpLog,
                   tcpEnd, tcpRemoves, nRead, bc, fw, wsExc, tcpExc>>
    /\ SteadyUpdate
    /\ UNCHANGED wire

\* ------------------------------------------------ io/server.py: try_write_to_all
\* A loop whose iterator does not advance past the first connection it took.
BeginBroadcastRestart(t, data, back, conv) ==
    IF ws_connections = <<>>
    THEN /\ bc' = [bc EXCEPT ![t] = [NoBc EXCEPT !.data = data, !.conv = conv]]
         /\ tcpTask' = [tcpTask EXCEPT ![t] = back]
    ELSE /\ bc' = [bc EXCEPT ![t] = [NoBc EXCEPT !.idx = 0, !.cur = ws_connections[1],
                                                 !.data = data, !.conv = conv,
                                                 !.snap = ws_connections]]
         /\ tcpTask' = [tcpTask EXCEPT ![t] = "send"]

\* A caller that starts try_write_to_all with ensure_future instead of
\* awaiting it: it goes on to its next read while the sends are pending.
BeginBroadcastNoAwait(t, data, back, conv) ==
    /\ bc' = [bc EXCEPT ![t] =
                IF ws_connections = <<>> THEN [NoBc EXCEPT !.data = data, !.conv = conv]
                ELSE [NoBc EXCEPT !.idx = 1, !.cur = ws_connections[1], !.data = data,
                                  !.conv = conv, !.snap = ws_connections]]
    /\ tcpTask' = [tcpTask EXCEPT ![t] = back]

\* Entering try_write_to_all: `closed = []`, the list iterator takes the first
\* connection and the task awaits its send.  `back` is where the caller loops to.
BeginBroadcast(t, data, back, conv) ==
    IF ws_connections = <<>>
    THEN /\ bc' = [bc EXCEPT ![t] = [NoBc EXCEPT !.data = data, !.conv = conv]]
         /\ tcpTask' = [tcpTask EXCEPT ![t] = back]
    ELSE /\ bc' = [bc EXCEPT ![t] = [NoBc EXCEPT !.idx = 1, !.cur = ws_connections[1],
                                                 !.data = data, !.conv = conv,
                                                 !.snap = ws_connections]]
         /\ tcpTask' = [tcpTask EXCEPT ![t] = "send"]

\* Where the caller of try_write_to_all goes on: its next read.
ReadState(t) == IF t \in RawIds THEN "read" ELSE "token"

\* One `await ws_connection.socket.send(data)` completes: delivered, or
\* ConnectionClosed is handled and the connection noted in `closed`.  The loop
\* then takes the next connection by index, or ends and removes the closed ones.
TryWriteToAllStep(t) ==
    /\ UNCHANGED events
    /\ tcpTask[t] = "send"
    /\ LET b == bc[t]
           w == b.cur
           failed == wsSock[w] = "closed"
           closed == IF failed THEN Append(b.closed, w) ELSE b.closed
           got == IF failed THEN b.got ELSE b.got \cup {w}
           bad == IF failed THEN b.failed \cup {w} ELSE b.failed
           rem == RemoveClosed(ws_connections, closed, {})
       IN
        /\ IF failed
           THEN /\ close_event' = [close_event EXCEPT ![w] = TRUE]
                /\ wsLog' = [wsLog EXCEPT ![w] = @ \cup {WsCloseLevel(wsCode[w])}]
                /\ wsInbox' = wsInbox
           ELSE /\ wsInbox' = [wsInbox EXCEPT ![w] = Append(@, b.data)]
                /\ UNCHANGED <<close_event, wsLog>>
        /\ IF b.idx < Len(ws_connections)
           THEN /\ bc' = [bc EXCEPT ![t] = [b EXCEPT !.idx = b.idx + 1,
                                                     !.cur = ws_connections[b.idx + 1],
                                                     !.closed = closed, !.got = got,
                                                     !.failed = bad]]
                /\ UNCHANGED <<ws_connections, wsRemoves, tcpTask, tcpExc>>
           ELSE /\ bc' = [bc EXCEPT ![t] = [b EXCEPT !.cur = 0, !.closed = closed,
                                                     !.got = got, !.failed = bad]]
                /\ ws_connections' = rem.list
                /\ wsRemoves' = [c \in WsIds |->
                                   IF c \in rem.called THEN wsRemoves[c] + 1
                                   ELSE wsRemoves[c]]
                /\ tcpTask' = [tcpTask EXCEPT ![t] =
                                   IF rem.raised THEN "crashed" ELSE ReadState(t)]
                /\ tcpExc' = [tcpExc EXCEPT ![t] =
                                   IF rem.raised THEN "ValueError" ELSE @]
    /\ UNCHANGED <<tcp_connections, wsSock, wsCode, wsTask, wsAccept, tcpPeer, svg_len,
                   tcpLog, tcpEnd, tcpInbox, tcpRemoves, nRead, nRecv, fw, wsExc>>
    /\ SteadyUpdate
    /\ UNCHANGED wire

\* ------------------------------------------- io/server.py: emulated-device port
AcceptEmulatorTcp ==
    /\ events < MaxEvents
    /\ events' = events + 1
    /\ \E t \in TcpIds : tcpTask[t] = "unborn"
    /\ LET t == NextTcp(TcpIds) IN
        /\ tcp_connections' = Append(tcp_connections, t)
        /\ tcpTask' = [tcpTask EXCEPT ![t] = "token"]
        /\ tcpPeer' = [tcpPeer EXCEPT ![t] = "open"]
    /\ UNCHANGED <<ws_connections, wsSock, wsCode, close_event, wsTask, wsAccept, wsLog,
                   wsInbox, wsRemoves, svg_len, tcpLog, tcpEnd, tcpInbox, tcpRemoves,
                   nRead, nRecv, bc, fw, wsExc, tcpExc>>
    /\ SteadyUpdate
    /\ UNCHANGED wire

\* A forwarder whose inner try covers the three reads: an empty partial is a
\* clean disconnect wherever it is raised.
EmuIncompleteReadAnyPhase(phase, partial) ==
    IF partial = 0 THEN "debug" ELSE "warning"

\* A forwarder whose inner except does not look at the partial data.
EmuIncompleteReadAnyPartial(phase, partial) ==
    IF phase = "token" THEN "debug" ELSE "warning"

\* The handler an IncompleteReadError with `partial` bytes reaches when it is
\* raised by the read of `phase`: the inner except (debug, remove, return) for
\* an empty partial of the token read, the outer except (warning) otherwise.
EmuIncompleteRead(phase, partial) ==
    IF phase = "token" /\ partial = 0 THEN "debug" ELSE "warning"

\* How the peer ended its stream, by where the stream stops.
StreamEnd(phase, partial) ==
    IF phase = "token" /\ partial = 0 THEN "clean" ELSE phase

\* Lengths of the partial data an IncompleteReadError of readexactly(n) carries:
\* nothing, one byte, all but one byte.
Partials(n) == {0, 1, n - 1} \cap 0..(n - 1)

\* readexactly raised IncompleteReadError: log, remove the connection, stop.
EmuDropped(t, phase, partial) ==
    /\ tcpLog' = [tcpLog EXCEPT ![t] = @ \cup {EmuIncompleteRead(phase, partial)}]
    /\ tcpEnd' = [tcpEnd EXCEPT ![t] = StreamEnd(phase, partial)]
    /\ tcpPeer' = [tcpPeer EXCEPT ![t] = "closed"]
    /\ tcpRemoves' = [tcpRemoves EXCEPT ![t] = @ + 1]
    /\ svg_len' = [svg_len EXCEPT ![t] = 0]
    /\ IF Contains(tcp_connections, t)
       THEN /\ tcp_connections' = ListRemove(tcp_connections, t)
            /\ tcpTask' = [tcpTask EXCEPT ![t] = "done"]
            /\ tcpExc' = tcpExc
       ELSE /\ tcp_connections' = tcp_connections
            /\ tcpTask' = [tcpTask EXCEPT ![t] = "crashed"]
            /\ tcpExc' = [tcpExc EXCEPT ![t] = "ValueError"]

\* `await connection.reader.readexactly(36)` completes.
EmuReadToken(t) ==
    /\ events < MaxEvents
    /\ events' = events + 1
    /\ t \in TcpIds
    /\ tcpTask[t] = "token"
    /\ \/ /\ nRead' = [nRead EXCEPT ![t] = @ + 1]
          /\ tcpTask' = [tcpTask EXCEPT ![t] = "length"]
          /\ UNCHANGED <<tcp_connections, tcpPeer, svg_len, tcpLog, tcpEnd, tcpRemoves,
                         tcpExc>>
       \/ /\ \E partial \in Partials(TOKEN_LEN) : EmuDropped(t, "token", partial)
          /\ UNCHANGED nRead
    /\ bc' = [bc EXCEPT ![t] = NoBc]
    /\ UNCHANGED <<ws_connections, wsSock, wsCode, close_event, wsTask, wsAccept, wsLog,
                   wsInbox, wsRemoves, tcpInbox, nRecv, fw, wsExc>>
    /\ SteadyUpdate
    /\ UNCHANGED wire

\* `await connection.reader.readexactly(4)` completes; struct.unpack gives
\* svg_len.  readexactly(0) returns at once, so an empty payload is read here.
EmuReadLength(t) ==
    /\ events < MaxEvents
    /\ events' = events + 1
    /\ t \in TcpIds
    /\ tcpTask[t] = "length"
    /\ \/ /\ \E n \in 0..MaxSvgLen :
                /\ svg_len' = [svg_len EXCEPT ![t] = n]
                /\ tcpTask' = [tcpTask EXCEPT ![t] = IF n = 0 THEN "convert" ELSE "payload"]
          /\ UNCHANGED <<tcp_connections, tcpPeer, tcpLog, tcpEnd, tcpRemoves, tcpExc>>
       \/ \E partial \in Partials(LEN_BYTES) : EmuDropped(t, "length", partial)
    /\ UNCHANGED <<ws_connections, wsSock, wsCode, close_event, wsTask, wsAccept, wsLog,
                   wsInbox, wsRemoves, tcpInbox, nRead, nRecv, bc, fw, wsExc>>
    /\ SteadyUpdate
    /\ UNCHANGED wire

\* `await connection.reader.readexactly(svg_len)` completes.
EmuReadPayload(t) ==
    /\ events < MaxEvents
    /\ events' = events + 1
    /\ t \in TcpIds
    /\ tcpTask[t] = "payload"
    /\ \/ /\ tcpTask' = [tcpTask EXCEPT ![t] = "convert"]
          /\ UNCHANGED <<tcp_connections, tcpPeer, svg_len, tcpLog, tcpEnd, tcpRemoves,
                         tcpExc>>
       \/ \E partial \in Partials(svg_len[t]) : EmuDropped(t, "payload", partial)
    /\ UNCHANGED <<ws_connections, wsSock, wsCode, close_event, wsTask, wsAccept, wsLog,
                   wsInbox, wsRemoves, tcpInbox, nRead, nRecv, bc, fw, wsExc>>
    /\ SteadyUpdate
    /\ UNCHANGED wire

\* What run_in_executor(convert_svg) and the decode of its result can come to:
\* GPGL text, GPGL text with a warning about the converter's stderr, bytes that
\* are not UTF-8 (decode raises), or an exception of subprocess.run or the
\* temporary file.
ConvertOutcomes == {"gpgl", "gpgl_stderr", "not_utf8", "oserror"}

ConvertRaises(outcome) ==
    CASE outcome = "oserror" -> "OSError"
      [] outcome = "not_utf8" -> "UnicodeDecodeError"
      [] OTHER -> ""

\* `await loop.run_in_executor(None, convert_svg, ...)` completes; the result is
\* decoded and try_write_to_all is entered.  Nothing here catches an exception
\* other than IncompleteReadError.
EmuConvert(t) ==
    /\ events < MaxEvents
    /\ events' = events + 1
    /\ t \in TcpIds
    /\ tcpTask[t] = "convert"
    /\ \E outcome \in ConvertOutcomes :
        /\ tcpLog' = [tcpLog EXCEPT ![t] =
                        IF outcome = "gpgl_stderr" THEN @ \cup {"converter"} ELSE @]
        /\ IF ConvertRaises(outcome) # ""
           THEN /\ tcpTask' = [tcpTask EXCEPT ![t] = "crashed"]
                /\ tcpExc' = [tcpExc EXCEPT ![t] = ConvertRaises(outcome)]
                /\ bc' = [bc EXCEPT ![t] = [NoBc EXCEPT !.conv = outcome]]
           ELSE /\ BeginBroadcast(t, <<t, nRead[t]>>, "token", outcome)
                /\ tcpExc' = tcpExc
    /\ svg_len' = [svg_len EXCEPT ![t] = 0]
    /\ UNCHANGED <<ws_connections, tcp_connections, wsSock, wsCode, close_event, wsTask,
                   wsAccept, wsLog, wsInbox, wsRemoves, tcpPeer, tcpEnd, tcpInbox,
                   tcpRemoves, nRead, nRecv, fw, wsExc>>
    /\ SteadyUpdate
    /\ UNCHANGED wire

\* ------------------------------------------------- io/server.py: raw command port
\* An accept callback of the raw port that registers the connection like the
\* job port's does.
AcceptGpglTcpRegisters ==
    /\ events < MaxEvents
    /\ events' = events + 1
    /\ \E t \in RawIds : tcpTask[t] = "unborn"
    /\ LET t == NextTcp(RawIds) IN
        /\ tcp_connections' = Append(tcp_connections, t)
        /\ tcpTask' = [tcpTask EXCEPT ![t] = "read"]
        /\ tcpPeer' = [tcpPeer EXCEPT ![t] = "open"]
    /\ UNCHANGED <<ws_connections, wsSock, wsCode, close_event, wsTask,
                   wsAccept, wsLog, wsInbox, wsRemoves, svg_len, tcpLog, tcpEnd, tcpInbox,
                   tcpRemoves, nRead, nRecv, bc, fw, wsExc, tcpExc>>
    /\ SteadyUpdate
    /\ UNCHANGED wire

\* accept_gpgl_tcp_connection: the connection joins no registry.
AcceptGpglTcp ==
    /\ events < MaxEvents
    /\ events' = events + 1
    /\ \E t \in RawIds : tcpTask[t] = "unborn"
    /\ LET t == NextTcp(RawIds) IN
        /\ tcpTask' = [tcpTask EXCEPT ![t] = "read"]
        /\ tcpPeer' = [tcpPeer EXCEPT ![t] = "open"]
    /\ UNCHANGED <<ws_connections, tcp_connections, wsSock, wsCode, close_event, wsTask,
                   wsAccept, wsLog, wsInbox, wsRemoves, svg_len, tcpLog, tcpEnd, tcpInbox,
                   tcpRemoves, nRead, nRecv, bc, fw, wsExc, tcpExc>>
    /\ SteadyUpdate
    /\ UNCHANGED wire

\* What `await connection.reader.read(TCP_BUFFER_SIZE)` returns: ASCII bytes,
\* bytes that are not ASCII (decode raises), or nothing at end of stream.
ReadOutcomes == {"ascii", "not_ascii", "eof"}

HandleRawGpgl(t) ==
    /\ events < MaxEvents
    /\ events' = events + 1
    /\ t \in RawIds
    /\ tcpTask[t] = "read"
    /\ \E outcome \in ReadOutcomes :
        CASE outcome = "eof" ->
                /\ tcpTask' = [tcpTask EXCEPT ![t] = "done"]
                /\ tcpLog' = [tcpLog EXCEPT ![t] = @ \cup {"debug"}]
                /\ tcpEnd' = [tcpEnd EXCEPT ![t] = "clean"]
                /\ tcpPeer' = [tcpPeer EXCEPT ![t] = "closed"]
                /\ bc' = [bc EXCEPT ![t] = NoBc]
                /\ UNCHANGED <<nRead, tcpExc>>
          [] outcome = "not_ascii" ->
                /\ nRead' = [nRead EXCEPT ![t] = @ + 1]
                /\ tcpTask' = [tcpTask EXCEPT ![t] = "crashed"]
                /\ tcpExc' = [tcpExc EXCEPT ![t] = "UnicodeDecodeError"]
                /\ bc' = [bc EXCEPT ![t] = NoBc]
                /\ UNCHANGED <<tcpLog, tcpEnd, tcpPeer>>
          [] outcome = "ascii" ->
                /\ nRead' = [nRead EXCEPT ![t] = @ + 1]
                /\ BeginBroadcast(t, <<t, nRead[t] + 1>>, "read", "")
                /\ UNCHANGED <<tcpLog, tcpEnd, tcpPeer, tcpExc>>
    /\ UNCHANGED <<ws_connections, tcp_connections, wsSock, wsCode, close_event, wsTask,
                   wsAccept, wsLog, wsInbox, wsRemoves, svg_len, tcpInbox, tcpRemoves,
                   nRecv, fw, wsExc>>
    /\ SteadyUpdate
    /\ UNCHANGED wire

NextServer ==
    \/ AcceptWs
    \/ \E c \in WsIds : AcceptWsReturn(c)
    \/ \E c \in WsIds, code \in CloseCodes : WsPeerClose(c, code)
    \/ \E c \in WsIds : WsRecvClosed(c)
    \/ \E c \in WsIds : HandleWebsocketData(c)
    \/ AcceptEmulatorTcp
    \/ \E t \in TcpIds : EmuReadToken(t)
    \/ \E t \in TcpIds : EmuReadLength(t)
    \/ \E t \in TcpIds : EmuReadPayload(t)
    \/ \E t \in TcpIds : EmuConvert(t)
    \/ AcceptGpglTcp
    \/ \E t \in RawIds : HandleRawGpgl(t)
    \/ \E t \in ProdIds : TryWriteToAllStep(t)

SpecServer == Init /\ [][NextServer]_vars

\* ------------------------------------------- gpgl_input/bridge.py: WebSocket side
\* What recv() returns: text that is ASCII, or text that is not (encode raises).
RecvOutcomes == {"ascii", "not_ascii"}

\* The write of `data` to the connection the iterator is at, before its drain.
IssueWrite(inbox, t, msg) == [inbox EXCEPT ![t] = Append(@, msg)]

\* forward_from_websocket, one received message: encode, then enter the loop
\* `for tcp_connection in tcp_connections: write(data); await drain()`.
ForwardFromWebsocket(c) ==
    /\ events < MaxEvents
    /\ events' = events + 1
    /\ wsTask[c] = "recv"
    /\ wsSock[c] = "open"
    /\ nRecv' = [nRecv EXCEPT ![c] = @ + 1]
    /\ \E outcome \in RecvOutcomes :
        IF outcome = "not_ascii"
        THEN /\ wsTask' = [wsTask EXCEPT ![c] = "crashed"]
             /\ wsExc' = [wsExc EXCEPT ![c] = "UnicodeEncodeError"]
             /\ fw' = [fw EXCEPT ![c] = NoFw]
             /\ tcpInbox' = tcpInbox
        ELSE /\ wsExc' = wsExc
             /\ IF tcp_connections = <<>>
                THEN /\ fw' = [fw EXCEPT ![c] = [NoFw EXCEPT !.data = <<c, nRecv[c] + 1>>]]
                     /\ UNCHANGED <<wsTask, tcpInbox>>
                ELSE /\ fw' = [fw EXCEPT ![c] =
                                 [NoFw EXCEPT !.idx = 1, !.cur = tcp_connections[1],
                                              !.data = <<c, nRecv[c] + 1>>,
                                              !.snap = tcp_connections]]
                     /\ tcpInbox' = IssueWrite(tcpInbox, tcp_connections[1],
                                               <<c, nRecv[c] + 1>>)
                     /\ wsTask' = [wsTask EXCEPT ![c] = "drain"]
    /\ UNCHANGED <<ws_connections, tcp_connections, wsSock, wsCode, close_event, wsAccept,
                   wsLog, wsInbox, wsRemoves, tcpTask, tcpPeer, svg_len, tcpLog, tcpEnd,
                   tcpRemoves, nRead, bc, tcpExc>>
    /\ SteadyUpdate
    /\ UNCHANGED wire

\* Whether `await writer.drain()` can raise: the stream's connection is lost.
DrainCanRaise(t) == tcpPeer[t] = "closed"

\* A write loop over a copy of the registry taken when the loop began
\* (`for tcp_connection in list(tcp_connections)`).
ForwardDrainStepSnapshot(c) ==
    /\ UNCHANGED events
    /\ wsTask[c] = "drain"
    /\ LET f == fw[c] IN
        \/ /\ DrainCanRaise(f.cur)
           /\ wsTask' = [wsTask EXCEPT ![c] = "crashed"]
           /\ wsExc' = [wsExc EXCEPT ![c] = "ConnectionResetError"]
           /\ fw' = [fw EXCEPT ![c] = [f EXCEPT !.failed = @ \cup {f.cur}]]
           /\ tcpInbox' = tcpInbox
        \/ /\ wsExc' = wsExc
           /\ IF f.idx < Len(f.snap)
              THEN /\ fw' = [fw EXCEPT ![c] = [f EXCEPT !.idx = f.idx + 1,
                                                        !.cur = f.snap[f.idx + 1],
                                                        !.got = @ \cup {f.cur}]]
                   /\ tcpInbox' = IssueWrite(tcpInbox, f.snap[f.idx + 1], f.data)
                   /\ wsTask' = wsTask
              ELSE /\ fw' = [fw EXCEPT ![c] = [f EXCEPT !.cur = 0, !.got = @ \cup {f.cur}]]
                   /\ tcpInbox' = tcpInbox
                   /\ wsTask' = [wsTask EXCEPT ![c] = "recv"]
    /\ UNCHANGED <<ws_connections, tcp_connections, wsSock, wsCode, close_event, wsAccept,
                   wsLog, wsInbox, wsRemoves, tcpTask, tcpPeer, svg_len, tcpLog, tcpEnd,
                   tcpRemoves, nRead, nRecv, bc, tcpExc>>
    /\ SteadyUpdate
    /\ UNCHANGED wire

\* One `await tcp_connection.writer.drain()` completes, or raises
\* ConnectionResetError, which nothing catches.  The loop then takes the next
\* connection by index and writes to it, or ends.
ForwardDrainStep(c) ==
    /\ UNCHANGED events
    /\ wsTask[c] = "drain"
    /\ LET f == fw[c] IN
        \/ /\ DrainCanRaise(f.cur)
           /\ wsTask' = [wsTask EXCEPT ![c] = "crashed"]
           /\ wsExc' = [wsExc EXCEPT ![c] = "ConnectionResetError"]
           /\ fw' = [fw EXCEPT ![c] = [f EXCEPT !.failed = @ \cup {f.cur}]]
           /\ tcpInbox' = tcpInbox
        \/ /\ wsExc' = wsExc
           /\ IF f.idx < Len(tcp_connections)
              THEN /\ fw' = [fw EXCEPT ![c] = [f EXCEPT !.idx = f.idx + 1,
                                                        !.cur = tcp_connections[f.idx + 1],
                                                        !.got = @ \cup {f.cur}]]
                   /\ tcpInbox' = IssueWrite(tcpInbox, tcp_connections[f.idx + 1], f.data)
                   /\ wsTask' = wsTask
              ELSE /\ fw' = [fw EXCEPT ![c] = [f EXCEPT !.cur = 0, !.got = @ \cup {f.cur}]]
                   /\ tcpInbox' = tcpInbox
                   /\ wsTask' = [wsTask EXCEPT ![c] = "recv"]
    /\ UNCHANGED <<ws_connections, tcp_connections, wsSock, wsCode, close_event, wsAccept,
                   wsLog, wsInbox, wsRemoves, tcpTask, tcpPeer, svg_len, tcpLog, tcpEnd,
                   tcpRemoves, nRead, nRecv, bc, tcpExc>>
    /\ SteadyUpdate
    /\ UNCHANGED wire

\* ------------------------------------------------- gpgl_input/bridge.py: TCP side
AcceptTcp ==
    /\ events < MaxEvents
    /\ events' = events + 1
    /\ \E t \in TcpIds : tcpTask[t] = "unborn"
    /\ LET t == NextTcp(TcpIds) IN
        /\ tcp_connections' = Append(tcp_connections, t)
        /\ tcpTask' = [tcpTask EXCEPT ![t] = "read"]
        /\ tcpPeer' = [tcpPeer EXCEPT ![t] = "open"]
    /\ UNCHANGED <<ws_connections, wsSock, wsCode, close_event, wsTask, wsAccept, wsLog,
                   wsInbox, wsRemoves, svg_len, tcpLog, tcpEnd, tcpInbox, tcpRemoves,
                   nRead, nRecv, bc, fw, wsExc, tcpExc>>
    /\ SteadyUpdate
    /\ UNCHANGED wire

\* The device closes its TCP connection (environment).
TcpPeerClose(t) ==
    /\ events < MaxEvents
    /\ events' = events + 1
    /\ tcpPeer[t] = "open"
    /\ tcpPeer' = [tcpPeer EXCEPT ![t] = "closed"]
    /\ UNCHANGED <<ws_connections, tcp_connections, wsSock, wsCode, close_event, wsTask,
                   wsAccept, wsLog, wsInbox, wsRemoves, tcpTask, svg_len, tcpLog, tcpEnd,
                   tcpInbox, tcpRemoves, nRead, nRecv, bc, fw, wsExc, tcpExc>>
    /\ SteadyUpdate
    /\ UNCHANGED wire

\* forward_from_tcp: `await connection.reader.read(TCP_BUFFER_SIZE)` returns.
\* Nothing: remove self, log, return.  Data: decode, enter the send loop.
ForwardFromTcp(t) ==
    /\ t \in TcpIds
    /\ tcpTask[t] = "read"
    /\ \E outcome \in ReadOutcomes :
        CASE outcome = "eof" ->
                /\ tcpPeer[t] = "closed"
                /\ tcpRemoves' = [tcpRemoves EXCEPT ![t] = @ + 1]
                /\ IF Contains(tcp_connections, t)
                   THEN /\ tcp_connections' = ListRemove(tcp_connections, t)
                        /\ tcpTask' = [tcpTask EXCEPT ![t] = "done"]
                        /\ tcpLog' = [tcpLog EXCEPT ![t] = @ \cup {"info"}]
                        /\ tcpExc' = tcpExc
                        /\ fw' = [c \in WsIds |->
                                    IF wsTask[c] = "drain"
                                    THEN [fw[c] EXCEPT !.dereg = @ \cup {t}] ELSE fw[c]]
                   ELSE /\ tcpTask' = [tcpTask EXCEPT ![t] = "crashed"]
                        /\ tcpExc' = [tcpExc EXCEPT ![t] = "ValueError"]
                        /\ UNCHANGED <<tcp_connections, tcpLog, fw>>
                /\ tcpEnd' = [tcpEnd EXCEPT ![t] = "clean"]
                /\ bc' = [bc EXCEPT ![t] = NoBc]
                /\ UNCHANGED <<nRead, events>>
          [] outcome = "not_ascii" ->
                /\ tcpPeer[t] = "open"
                /\ events < MaxEvents
                /\ events' = events + 1
                /\ nRead' = [nRead EXCEPT ![t] = @ + 1]
                /\ tcpTask' = [tcpTask EXCEPT ![t] = "crashed"]
                /\ tcpExc' = [tcpExc EXCEPT ![t] = "UnicodeDecodeError"]
                /\ bc' = [bc EXCEPT ![t] = NoBc]
                /\ UNCHANGED <<tcp_connections, tcpLog, tcpEnd, tcpRemoves, fw>>
          [] outcome = "ascii" ->
                /\ tcpPeer[t] = "open"
                /\ events < MaxEvents
                /\ events' = events + 1
                /\ nRead' = [nRead EXCEPT ![t] = @ + 1]
                /\ BeginBroadcast(t, <<t, nRead[t] + 1>>, "read", "")
                /\ UNCHANGED <<tcp_connections, tcpLog, tcpEnd, tcpRemoves, fw, tcpExc>>
    /\ UNCHANGED <<ws_connections, wsSock, wsCode, close_event, wsTask, wsAccept, wsLog,
                   wsInbox, wsRemoves, tcpPeer, svg_len, tcpInbox, nRecv, wsExc>>
    /\ SteadyUpdate
    /\ UNCHANGED wire

\* Line 106: the connection handle_ws_connection_closed is called with is
\* `connection`, the TCP connection of the forwarder, not `ws_connection`.
ClosedHandlerArg(t, w) == [kind |-> "tcp", id |-> t]

\* handle_ws_connection_closed starts with `connection.close_event.set()`:
\* only a WsConnection has a close_event, on a TcpConnection AttributeError.
HasCloseEvent(conn) == conn.kind = "ws"

\* forward_from_tcp, one `await ws_connection.socket.send(data)` completes:
\* delivered, or ConnectionClosed is handled.  The loop then takes the next
\* connection by index, or ends and removes the closed ones.
ForwardSendStep(t) ==
    /\ UNCHANGED events
    /\ t \in TcpIds
    /\ tcpTask[t] = "send"
    /\ LET b == bc[t]
           w == b.cur
           failed == wsSock[w] = "closed"
           arg == ClosedHandlerArg(t, w)
           closed == IF failed THEN Append(b.closed, w) ELSE b.closed
           got == IF failed THEN b.got ELSE b.got \cup {w}
           bad == IF failed THEN b.failed \cup {w} ELSE b.failed
           rem == RemoveClosed(ws_connections, closed, {})
       IN
        IF failed /\ ~HasCloseEvent(arg)
        THEN /\ tcpTask' = [tcpTask EXCEPT ![t] = "crashed"]
             /\ tcpExc' = [tcpExc EXCEPT ![t] = "AttributeError"]
             /\ bc' = [bc EXCEPT ![t] = [b EXCEPT !.failed = bad]]
             /\ UNCHANGED <<ws_connections, close_event, wsLog, wsInbox, wsRemoves>>
        ELSE
        /\ IF failed
           THEN /\ close_event' = [close_event EXCEPT ![arg.id] = TRUE]
                /\ wsLog' = [wsLog EXCEPT ![arg.id] = @ \cup {WsCloseLevel(wsCode[w])}]
                /\ wsInbox' = wsInbox
           ELSE /\ wsInbox' = [wsInbox EXCEPT ![w] = Append(@, b.data)]
                /\ UNCHANGED <<close_event, wsLog>>
        /\ IF b.idx < Len(ws_connections)
           THEN /\ bc' = [bc EXCEPT ![t] = [b EXCEPT !.idx = b.idx + 1,
                                                     !.cur = ws_connections[b.idx + 1],
                                                     !.closed = closed, !.got = got,
                                                     !.failed = bad]]
                /\ UNCHANGED <<ws_connections, wsRemoves, tcpTask, tcpExc>>
           ELSE /\ bc' = [bc EXCEPT ![t] = [b EXCEPT !.cur = 0, !.closed = closed,
                                                     !.got = got, !.failed = bad]]
                /\ ws_connections' = rem.list
                /\ wsRemoves' = [c \in WsIds |->
                                   IF c \in rem.called THEN wsRemoves[c] + 1
                                   ELSE wsRemoves[c]]
                /\ tcpTask' = [tcpTask EXCEPT ![t] =
                                   IF rem.raised THEN "crashed" ELSE "read"]
                /\ tcpExc' = [tcpExc EXCEPT ![t] =
                                   IF rem.raised THEN "ValueError" ELSE @]
    /\ UNCHANGED <<tcp_connections, wsSock, wsCode, wsTask, wsAccept, tcpPeer, svg_len,
                   tcpLog, tcpEnd, tcpInbox, tcpRemoves, nRead, nRecv, fw, wsExc>>
    /\ SteadyUpdate
    /\ UNCHANGED wire

NextBridge ==
    \/ AcceptWs
    \/ \E c \in WsIds : AcceptWsReturn(c)
    \/ \E c \in WsIds, code \in CloseCodes : WsPeerClose(c, code)
    \/ \E c \in WsIds : WsRecvClosed(c)
    \/ \E c \in WsIds : ForwardFromWebsocket(c)
    \/ \E c \in WsIds : ForwardDrainStep(c)
    \/ AcceptTcp
    \/ \E t \in TcpIds : TcpPeerClose(t)
    \/ \E t \in TcpIds : ForwardFromTcp(t)
    \/ \E t \in TcpIds : ForwardSendStep(t)

SpecBridge == Init /\ [][NextBridge]_vars

\* The event loop runs every task whose awaited future is done: a forwarder
\* whose recv raised, an accept handler whose event is set, a broadcast whose
\* send or drain has completed.  What the peers do is under no fairness.
FairServer ==
    /\ SpecServer
    /\ \A c \in WsIds : WF_vars(WsRecvClosed(c)) /\ WF_vars(AcceptWsReturn(c))
    /\ \A t \in ProdIds : WF_vars(TryWriteToAllStep(t))

FairBridge ==
    /\ SpecBridge
    /\ \A c \in WsIds :
        WF_vars(WsRecvClosed(c)) /\ WF_vars(AcceptWsReturn(c)) /\ WF_vars(ForwardDrainStep(c))
    /\ \A t \in TcpIds : WF_vars(ForwardSendStep(t))

\* ------------------------------------------------------ src/bridge.py: class Bridge
\* Bridge._handle_ws_connection_closed prints one of two lines, by
\* `e.code != 1000`: the line with code and reason (here "warning", the
\* unexpected kind) or 'Websocket disconnected normally' (here "info").
BridgeCloseLevel(code) == IF code # 1000 THEN "warning" ELSE "info"

\* Bridge._forward_from_websocket, recv() raises ConnectionClosed: set the
\* event, print, remove the pair from _ws_clients, return.
BridgeRecvClosed(c) ==
    /\ UNCHANGED events
    /\ wsTask[c] = "recv"
    /\ wsSock[c] = "closed"
    /\ close_event' = [close_event EXCEPT ![c] = TRUE]
    /\ wsLog' = [wsLog EXCEPT ![c] = @ \cup {BridgeCloseLevel(wsCode[c])}]
    /\ wsRemoves' = [wsRemoves EXCEPT ![c] = @ + 1]
    /\ IF Contains(ws_connections, c)
       THEN /\ ws_connections' = ListRemove(ws_connections, c)
            /\ wsTask' = [wsTask EXCEPT ![c] = "done"]
            /\ wsExc' = wsExc
            /\ bc' = [t \in ProdIds |->
                        IF tcpTask[t] = "send" THEN NoteDereg(bc[t], c) ELSE bc[t]]
       ELSE /\ wsTask' = [wsTask EXCEPT ![c] = "crashed"]
            /\ wsExc' = [wsExc EXCEPT ![c] = "ValueError"]
            /\ UNCHANGED <<ws_connections, bc>>
    /\ UNCHANGED <<tcp_connections, wsSock, wsCode, wsAccept, wsInbox, tcpTask, tcpPeer,
                   svg_len, tcpLog, tcpEnd, tcpInbox, tcpRemoves, nRead, nRecv, fw, tcpExc>>
    /\ SteadyUpdate
    /\ UNCHANGED wire

\* Bridge._forward_from_tcp_connection, one `await websocket.send(data)`
\* completes: delivered, or ConnectionClosed is handled with the pair's own
\* close_event.  The loop then takes the next pair by index, or ends and
\* removes the closed ones.
BridgeSendStep(t) ==
    /\ UNCHANGED events
    /\ t \in TcpIds
    /\ tcpTask[t] = "send"
    /\ LET b == bc[t]
           w == b.cur
           failed == wsSock[w] = "closed"
           closed == IF failed THEN Append(b.closed, w) ELSE b.closed
           got == IF failed THEN b.got ELSE b.got \cup {w}
           bad == IF failed THEN b.failed \cup {w} ELSE b.failed
           rem == RemoveClosed(ws_connections, closed, {})
       IN
        /\ IF failed
           THEN /\ close_event' = [close_event EXCEPT ![w] = TRUE]
                /\ wsLog' = [wsLog EXCEPT ![w] = @ \cup {BridgeCloseLevel(wsCode[w])}]
                /\ wsInbox' = wsInbox
           ELSE /\ wsInbox' = [wsInbox EXCEPT ![w] = Append(@, b.data)]
                /\ UNCHANGED <<close_event, wsLog>>
        /\ IF b.idx < Len(ws_connections)
           THEN /\ bc' = [bc EXCEPT ![t] = [b EXCEPT !.idx = b.idx + 1,
                                                     !.cur = ws_connections[b.idx + 1],
                                                     !.closed = closed, !.got = got,
                                                     !.failed = bad]]
                /\ UNCHANGED <<ws_connections, wsRemoves, tcpTask, tcpExc>>
           ELSE /\ bc' = [bc EXCEPT ![t] = [b EXCEPT !.cur = 0, !.closed = closed,
                                                     !.got = got, !.failed = bad]]
                /\ ws_connections' = rem.list
                /\ wsRemoves' = [c \in WsIds |->
                                   IF c \in rem.called THEN wsRemoves[c] + 1
                                   ELSE wsRemoves[c]]
                /\ tcpTask' = [tcpTask EXCEPT ![t] =
                                   IF rem.raised THEN "crashed" ELSE "read"]
                /\ tcpExc' = [tcpExc EXCEPT ![t] =
                                   IF rem.raised THEN "ValueError" ELSE @]
    /\ UNCHANGED <<tcp_connections, wsSock, wsCode, wsTask, wsAccept, tcpPeer, svg_len,
                   tcpLog, tcpEnd, tcpInbox, tcpRemoves, nRead, nRecv, fw, wsExc>>
    /\ SteadyUpdate
    /\ UNCHANGED wire

\* The rest of class Bridge is the code of gpgl_input/bridge.py with print for
\* the logger: accept_ws_connection, accept_tcp_connection, the encode, write
\* and drain of _forward_from_websocket, the read, EOF and decode of
\* _forward_from_tcp_connection.
NextClassBridge ==
    \/ AcceptWs
    \/ \E c \in WsIds : AcceptWsReturn(c)
    \/ \E c \in WsIds, code \in CloseCodes : WsPeerClose(c, code)
    \/ \E c \in WsIds : BridgeRecvClosed(c)
    \/ \E c \in WsIds : ForwardFromWebsocket(c)
    \/ \E c \in WsIds : ForwardDrainStep(c)
    \/ AcceptTcp
    \/ \E t \in TcpIds : TcpPeerClose(t)
    \/ \E t \in TcpIds : ForwardFromTcp(t)
    \/ \E t \in TcpIds : BridgeSendStep(t)

SpecClassBridge == Init /\ [][NextClassBridge]_vars

\* ------------------------------------------- the job frame on the wire, byte by byte
\* send-svg.py writes str(uuid4()) in ASCII, struct.pack('>I', len(data)) and
\* data; handle_emulator_tcp_connection reads them back with readexactly.  A
\* byte is a number 0..255, the stream is the concatenation of the frames, and
\* a run of payload bytes is named by its place in the stream and its length.
PayloadLens == {0, 1, BigPayload}

\* The i-th byte of the text of a token: hexadecimal digits around the four
\* dashes of a UUID.
TokenByte(token, i) ==
    IF i \in {9, 14, 19, 24} THEN 45 ELSE 48 + ((token * i) % 10)

\* str(job_uuid).encode('ascii')
TokenBytes(token) == [i \in 1..TOKEN_LEN |-> TokenByte(token, i)]

\* struct.unpack('<I', b)[0]: the length read least significant byte first.
unpack_le(b) == b[1] + b[2] * 2^8 + b[3] * 2^16 + b[4] * 2^24

\* struct.pack('>I', n)
pack(n) == <<(n \div 2^24) % 256, (n \div 2^16) % 256, (n \div 2^8) % 256, n % 256>>

\* struct.unpack('>I', b)[0]
unpack(b) == b[1] * 2^24 + b[2] * 2^16 + b[3] * 2^8 + b[4]

\* Bytes the three sendall calls of one frame put on the wire.
FrameLen(frame) == TOKEN_LEN + LEN_BYTES + frame.len

\* Bytes on the wire before frame k.
RECURSIVE Start(_, _)
Start(frames, k) ==
    IF k <= 1 THEN 0 ELSE Start(frames, k - 1) + FrameLen(frames[k - 1])

Total(frames) == Start(frames, Len(frames) + 1)

\* The p-th byte of the stream (p from 1): a byte of the token, of the packed
\* length, or of the payload of the frame p falls into.
StreamByte(frames, p) ==
    LET k == CHOOSE j \in 1..Len(frames) :
                 Start(frames, j) < p /\ p <= Start(frames, j + 1)
        o == p - Start(frames, k)
    IN IF o <= TOKEN_LEN THEN TokenByte(frames[k].token, o)
       ELSE IF o <= TOKEN_LEN + LEN_BYTES THEN pack(frames[k].len)[o - TOKEN_LEN]
       ELSE (frames[k].token + o) % 256

\* The n bytes of the stream behind position pos.
Slice(frames, pos, n) == [i \in 1..n |-> StreamByte(frames, pos + i)]

\* The frames a client sends on one connection.
FrameSeqs ==
    UNION {[1..n -> [token : 1..MaxTokens, len : PayloadLens]] : n \in 1..MaxFrames}

InitFrame ==
    /\ InitRelay
    /\ \E frames \in FrameSeqs : wire = [NoWire EXCEPT !.frames = frames]

\* Amounts of the stream the reader's buffer can hold after a segment has
\* arrived: around every field boundary of every frame.
CutPoints(frames) ==
    {q \in UNION {{Start(frames, k) + d :
                     d \in {1, TOKEN_LEN - 1, TOKEN_LEN, TOKEN_LEN + 1,
                            TOKEN_LEN + LEN_BYTES - 1, TOKEN_LEN + LEN_BYTES,
                            TOKEN_LEN + LEN_BYTES + 1, FrameLen(frames[k]) - 1,
                            FrameLen(frames[k])}} : k \in 1..Len(frames)} :
        q <= Total(frames)}

\* A segment of the client's stream arrives, cut anywhere.
WireArrive ==
    /\ \E q \in CutPoints(wire.frames) :
        /\ q > wire.arrived
        /\ wire' = [wire EXCEPT !.arrived = q]
    /\ UNCHANGED relayVars

\* The client leaves its `with socket` block after the last sendall.
WireClose ==
    /\ wire.arrived = Total(wire.frames)
    /\ ~wire.eof
    /\ wire' = [wire EXCEPT !.eof = TRUE]
    /\ UNCHANGED relayVars

\* readexactly(n) can return: n bytes are buffered.
Buffered(n) == wire.arrived - wire.pos >= n
\* readexactly(n) raises IncompleteReadError: end of stream before n bytes.
Incomplete(n) == wire.eof /\ ~Buffered(n)

\* `svg_uuid = await connection.reader.readexactly(36)`
WireReadToken ==
    /\ wire.phase = "token"
    /\ \/ /\ Buffered(TOKEN_LEN)
          /\ wire' = [wire EXCEPT !.svg_uuid = Slice(wire.frames, wire.pos, TOKEN_LEN),
                                  !.pos = @ + TOKEN_LEN, !.phase = "length"]
       \/ /\ Incomplete(TOKEN_LEN)
          /\ wire' = [wire EXCEPT !.phase =
                         IF EmuIncompleteRead("token", wire.arrived - wire.pos) = "debug"
                         THEN "disconnected" ELSE "dropped"]
    /\ UNCHANGED relayVars

\* `svg_len_bytes = await readexactly(4); svg_len = struct.unpack('>I', ...)[0]`
WireReadLength ==
    /\ wire.phase = "length"
    /\ \/ /\ Buffered(LEN_BYTES)
          /\ wire' = [wire EXCEPT !.svg_len = unpack(Slice(wire.frames, wire.pos, LEN_BYTES)),
                                  !.pos = @ + LEN_BYTES, !.phase = "payload"]
       \/ /\ Incomplete(LEN_BYTES)
          /\ wire' = [wire EXCEPT !.phase = "dropped"]
    /\ UNCHANGED relayVars

\* `svg_bytes = await connection.reader.readexactly(svg_len)`: the frame is
\* received, with the payload the svg_len bytes behind pos.
WireReadPayload ==
    /\ wire.phase = "payload"
    /\ \/ /\ Buffered(wire.svg_len)
          /\ wire' = [wire EXCEPT
                        !.jobs = Append(@, [svg_uuid |-> wire.svg_uuid,
                                            svg_bytes |-> [from |-> wire.pos,
                                                           n |-> wire.svg_len]]),
                        !.pos = @ + wire.svg_len, !.phase = "token",
                        !.svg_uuid = <<>>, !.svg_len = 0]
       \/ /\ Incomplete(wire.svg_len)
          /\ wire' = [wire EXCEPT !.phase = "dropped"]
    /\ UNCHANGED relayVars

NextFrame ==
    \/ WireArrive
    \/ WireClose
    \/ WireReadToken
    \/ WireReadLength
    \/ WireReadPayload

SpecFrame == InitFrame /\ [][NextFrame]_vars

\* --------------------------------------------------- svg_input/server.py: one connection
\* handle_connection reads frames of a 4-byte big-endian length and a payload,
\* converts each payload and forwards the result on a new connection.  The
\* peer's stream is a sequence of such frames that may stop anywhere; `token`
\* tells the documents apart.  received, converted and forwarded list the
\* payloads read, the payloads convert_svg returned for, and the payloads
\* whose result forward_gpgl wrote.
NoSvg == [frames |-> <<>>, arrived |-> 0, eof |-> FALSE, pos |-> 0, phase |-> "length",
          svg_len |-> 0, svg_bytes |-> [from |-> 0, n |-> 0], received |-> <<>>,
          converted |-> <<>>, forwarded |-> <<>>, exc |-> ""]

\* Bytes of one frame on the wire.
SvgFrameLen(frame) == LEN_BYTES + frame.len

\* Bytes on the wire before frame k.
RECURSIVE SvgStart(_, _)
SvgStart(frames, k) ==
    IF k <= 1 THEN 0 ELSE SvgStart(frames, k - 1) + SvgFrameLen(frames[k - 1])

SvgTotal(frames) == SvgStart(frames, Len(frames) + 1)

\* The p-th byte of the peer's stream (p from 1).
SvgStreamByte(frames, p) ==
    LET k == CHOOSE j \in 1..Len(frames) :
                 SvgStart(frames, j) < p /\ p <= SvgStart(frames, j + 1)
        o == p - SvgStart(frames, k)
    IN IF o <= LEN_BYTES THEN pack(frames[k].len)[o]
       ELSE (frames[k].token + o) % 256

SvgSlice(frames, pos, n) == [i \in 1..n |-> SvgStreamByte(frames, pos + i)]

InitSvgInput ==
    /\ InitRelay
    /\ \E frames \in FrameSeqs : wire = [NoSvg EXCEPT !.frames = frames]

\* Amounts of the stream the reader's buffer can hold after a segment has
\* arrived: around every field boundary of every frame.
SvgCutPoints(frames) ==
    {q \in UNION {{SvgStart(frames, k) + d :
                     d \in {1, LEN_BYTES - 1, LEN_BYTES, LEN_BYTES + 1,
                            SvgFrameLen(frames[k]) - 1, SvgFrameLen(frames[k])}} :
                   k \in 1..Len(frames)} :
        q <= SvgTotal(frames)}

\* A segment of the peer's stream arrives, cut anywhere.
SvgArrive ==
    /\ ~wire.eof
    /\ \E q \in SvgCutPoints(wire.frames) :
        /\ q > wire.arrived
        /\ wire' = [wire EXCEPT !.arrived = q]
    /\ UNCHANGED relayVars

\* The peer closes, at a frame boundary or inside a frame.
SvgPeerClose ==
    /\ ~wire.eof
    /\ wire' = [wire EXCEPT !.eof = TRUE]
    /\ UNCHANGED relayVars

\* `len_bytes = await reader.readexactly(4); svg_len = struct.unpack(...)[0]`;
\* on IncompleteReadError the handler returns.
SvgReadLength ==
    /\ wire.phase = "length"
    /\ \/ /\ Buffered(LEN_BYTES)
          /\ wire' = [wire EXCEPT
                        !.svg_len = unpack(SvgSlice(wire.frames, wire.pos, LEN_BYTES)),
                        !.pos = @ + LEN_BYTES, !.phase = "payload"]
       \/ /\ Incomplete(LEN_BYTES)
          /\ wire' = [wire EXCEPT !.phase = "returned"]
    /\ UNCHANGED relayVars

\* `svg_bytes = await reader.readexactly(svg_len)`
SvgReadPayload ==
    /\ wire.phase = "payload"
    /\ \/ /\ Buffered(wire.svg_len)
          /\ LET bytes == [from |-> wire.pos, n |-> wire.svg_len] IN
             wire' = [wire EXCEPT !.svg_bytes = bytes, !.received = Append(@, bytes),
                                  !.pos = @ + wire.svg_len, !.phase = "convert",
                                  !.svg_len = 0]
       \/ /\ Incomplete(wire.svg_len)
          /\ wire' = [wire EXCEPT !.phase = "returned"]
    /\ UNCHANGED relayVars

\* What run_in_executor(convert_svg) comes to: the simplifier's stdout, or an
\* exception of subprocess.run or the temporary file.
SvgConvertOutcomes == {"gpgl", "oserror"}

\* `gpgl_bytes = await loop.run_in_executor(None, convert_svg, svg_bytes)`;
\* the except clause catches IncompleteReadError only.
SvgConvert ==
    /\ wire.phase = "convert"
    /\ \E outcome \in SvgConvertOutcomes :
        wire' = IF outcome = "gpgl"
                THEN [wire EXCEPT !.converted = Append(@, wire.svg_bytes),
                                  !.phase = "forward"]
                ELSE [wire EXCEPT !.phase = "crashed", !.exc = "OSError"]
    /\ UNCHANGED relayVars

\* What asyncio.open_connection('127.0.0.1', 8081) comes to.
ConnectOutcomes == {"connected", "refused"}

\* `await forward_gpgl(gpgl_bytes)`: connect, write, go on to the next frame.
SvgForward ==
    /\ wire.phase = "forward"
    /\ \E outcome \in ConnectOutcomes :
        wire' = IF outcome = "connected"
                THEN [wire EXCEPT !.forwarded = Append(@, wire.svg_bytes),
                                  !.phase = "length"]
                ELSE [wire EXCEPT !.phase = "crashed", !.exc = "ConnectionRefusedError"]
    /\ UNCHANGED relayVars

NextSvgInput ==
    \/ SvgArrive
    \/ SvgPeerClose
    \/ SvgReadLength
    \/ SvgReadPayload
    \/ SvgConvert
    \/ SvgForward

SpecSvgInput == InitSvgInput /\ [][NextSvgInput]_vars

\* ====================================================================== claims
Running == {"token", "length", "payload", "convert", "send", "read"}
Stopped == {"done", "crashed"}

\* A broadcast of task t is over: it began and the task is past its loop.
BroadcastOver(t) == bc[t].snap # <<>> /\ tcpTask[t] # "send"
\* A broadcast of task t returned to its caller.
BroadcastReturned(t) == bc[t].snap # <<>> /\ tcpTask[t] = ReadState(t)

Before(list, a, b) == Contains(list, a) /\ Contains(list, b) /\ IndexOf(list, a) < IndexOf(list, b)

\* C1: in io/server.py a forwarder that has stopped has left its registry, and
\* a connection is in its registry while its forwarder has not yet detected
\* the end of the connection.
C1_RegistryFollowsForwarder ==
    /\ \A c \in WsIds :
        /\ wsTask[c] \in Stopped => ~Contains(ws_connections, c)
        /\ wsTask[c] = "recv" => Contains(ws_connections, c)
    /\ \A t \in TcpIds :
        /\ tcpTask[t] \in Stopped => ~Contains(tcp_connections, t)
        /\ tcpTask[t] \in Running => Contains(tcp_connections, t)

\* C2: remove is executed at most once on every WebSocket connection, so never
\* on a connection that has left the registry.
C2_RemoveOnce == \A c \in WsIds : wsRemoves[c] <= 1

\* C3: when try_write_to_all has returned, a connection whose send failed is
\* not in the registry, and every connection that was registered behind a
\* failed one and is still registered was sent the payload.
C3_BroadcastSurvivesFailure ==
    \A t \in ProdIds : BroadcastReturned(t) =>
        \A f \in bc[t].failed :
            /\ ~Contains(ws_connections, f)
            /\ \A c \in WsIds :
                Before(bc[t].snap, f, c) /\ Contains(ws_connections, c) => c \in bc[t].got

\* C4: in gpgl_input/bridge.py, when a send of forward_from_tcp fails on a
\* WebSocket target, the target's closure is reported and its completion signal
\* set, the TCP forwarder keeps running, and once the broadcast is over the
\* target is out of the registry and the targets behind it were sent the chunk.
C4_BridgeTargetFailure ==
    \A t \in TcpIds : \A f \in bc[t].failed :
        /\ close_event[f]
        /\ wsLog[f] # {}
        /\ tcpTask[t] # "crashed"
        /\ BroadcastOver(t) =>
            /\ ~Contains(ws_connections, f)
            /\ \A c \in WsIds :
                Before(bc[t].snap, f, c) /\ Contains(ws_connections, c) /\ bc[t].dereg = {}
                    => c \in bc[t].got \cup bc[t].failed

\* C5: when a consumer's forwarder deregisters it while a broadcast is under
\* way, the broadcasting task is not ended by an exception, and once the
\* broadcast is over every consumer registered from its start to now was sent
\* the message.
C5_DeregisterDuringBroadcast ==
    \A t \in ProdIds : bc[t].dereg # {} =>
        /\ tcpTask[t] # "crashed"
        /\ BroadcastOver(t) =>
            \A c \in WsIds :
                Contains(bc[t].snap, c) /\ Contains(ws_connections, c) => c \in bc[t].got

\* The messages of producer p in an inbox, in the inbox's order.
FromProducer(inbox, p) == SelectSeq(inbox, LAMBDA m : m[1] = p)
\* The messages 1..n of producer p, in the order it took them.
Emitted(p, n) == [k \in 1..n |-> <<p, k>>]

\* C6: in the plain bridge, while the registry of consumers has not changed
\* since a producer's first message and the producer is between two messages
\* (or has stopped), every registered consumer whose connection is open has
\* been sent all the producer's messages, once each, in the order it emitted
\* them.  Messages the bridge cannot decode or encode are left aside.
C6_InOrderDelivery ==
    /\ \A t \in TcpIds :
        tcpSteady[t] /\ tcpTask[t] # "send" /\ tcpExc[t] # "UnicodeDecodeError" =>
            \A c \in WsIds :
                Contains(ws_connections, c) /\ wsSock[c] = "open" =>
                    FromProducer(wsInbox[c], t) = Emitted(t, nRead[t])
    /\ \A c \in WsIds :
        wsSteady[c] /\ wsTask[c] # "drain" /\ wsExc[c] # "UnicodeEncodeError" =>
            \A t \in TcpIds :
                Contains(tcp_connections, t) /\ tcpPeer[t] = "open" =>
                    FromProducer(tcpInbox[t], c) = Emitted(c, nRecv[c])

\* The step in which the job-port forwarder of t sees its stream end.
StreamEnds(t, how) == tcpEnd[t] = "none" /\ tcpEnd'[t] \in how

\* C7: on the job port, the step that sees a connection's stream end inside a
\* frame (part of the token, no or part of the length, part of the payload)
\* removes that connection from the TCP registry, for the only time, logs the
\* drop as a warning and not as a clean disconnect, ends its forwarder, and
\* changes neither the rest of the registry nor any other task or the
\* WebSocket registry.
C7_TruncatedFrame ==
    [][\A t \in TcpIds :
        /\ tcpRemoves'[t] <= 1
        /\ StreamEnds(t, {"token", "length", "payload"}) =>
            /\ Contains(tcp_connections, t)
            /\ tcp_connections' = ListRemove(tcp_connections, t)
            /\ tcpRemoves[t] = 0 /\ tcpRemoves'[t] = 1
            /\ tcpLog'[t] = tcpLog[t] \cup {"warning"}
            /\ "debug" \notin tcpLog'[t]
            /\ tcpTask'[t] = "done"
            /\ \A u \in ProdIds \ {t} : tcpTask'[u] = tcpTask[u]
            /\ ws_connections' = ws_connections
            /\ wsTask' = wsTask]_vars

\* A connection dropped inside a payload, warned about and out of the
\* registry, while another connection is registered and its forwarder runs.
C7_Witness ==
    \E t, u \in TcpIds :
        /\ t # u
        /\ tcpEnd[t] = "payload" /\ tcpTask[t] = "done" /\ "warning" \in tcpLog[t]
        /\ ~Contains(tcp_connections, t) /\ tcpRemoves[t] = 1
        /\ tcpTask[u] \in Running /\ Contains(tcp_connections, u)

\* C8: on the job port, the step that sees the peer close before any byte of
\* the next token removes the connection, for the only time, ends its
\* forwarder and logs at debug level only; the step that sees the peer close
\* after a part of the token logs a warning and no clean disconnect.
C8_CleanEndOfStream ==
    [][\A t \in TcpIds :
        /\ tcpRemoves'[t] <= 1
        /\ StreamEnds(t, {"clean"}) =>
            /\ Contains(tcp_connections, t)
            /\ tcp_connections' = ListRemove(tcp_connections, t)
            /\ tcpRemoves[t] = 0 /\ tcpRemoves'[t] = 1
            /\ tcpLog'[t] = tcpLog[t] \cup {"debug"}
            /\ "warning" \notin tcpLog'[t]
            /\ tcpTask'[t] = "done"
        /\ StreamEnds(t, {"token"}) =>
            /\ "warning" \in tcpLog'[t]
            /\ "debug" \notin tcpLog'[t]]_vars

\* A connection closed cleanly after a complete frame, and another one closed
\* inside a token.
C8_Witness ==
    \E t, u \in TcpIds :
        /\ tcpEnd[t] = "clean" /\ nRead[t] >= 1 /\ tcpTask[t] = "done"
        /\ tcpLog[t] = {"debug"} /\ ~Contains(tcp_connections, t)
        /\ tcpEnd[u] = "token" /\ "warning" \in tcpLog[u]

\* C9: after a conversion dispatch that failed (the converter could not be
\* run, or its output is no text), the forwarder of the connection is still
\* running.
C9_ConversionFailureKeepsLoop ==
    \A t \in TcpIds :
        bc[t].conv \in {"oserror", "not_utf8"} => tcpTask[t] \in Running

\* C10: in the plain bridge, when the drain of a write to a target TCP
\* connection fails, the WebSocket forwarder is not ended by it, its own
\* connection is not left registered with its completion signal unset by a
\* stopped forwarder, and once the broadcast is over the failing target is out
\* of the TCP registry and the other registered targets were written to.
C10_TargetWriteFailure ==
    \A c \in WsIds : \A f \in fw[c].failed :
        /\ wsTask[c] # "crashed"
        /\ wsTask[c] \in Stopped => ~(Contains(ws_connections, c) /\ ~close_event[c])
        /\ wsTask[c] = "recv" =>
            /\ ~Contains(tcp_connections, f)
            /\ \A t \in TcpIds :
                Contains(fw[c].snap, t) /\ Contains(tcp_connections, t) /\ fw[c].dereg = {}
                    => t \in fw[c].got

\* The step in which the forwarder of c finds its own WebSocket closed.
DetectsClosure(c) == wsTask[c] = "recv" /\ wsSock[c] = "closed" /\ wsTask'[c] # "recv"

\* C11: the step in which a WebSocket forwarder finds its connection closed
\* sets the connection's completion signal, leaves the connection out of the
\* WebSocket registry and ends the forwarder, whatever the close code; the
\* code decides the log level alone, "info" for 1000 and 1001, "warning" for
\* any other.
C11_CloseCodeOnlyLogs ==
    [][\A c \in WsIds : DetectsClosure(c) =>
        /\ close_event'[c]
        /\ ~Contains(ws_connections', c)
        /\ \A d \in WsIds \ {c} : Contains(ws_connections', d) = Contains(ws_connections, d)
        /\ wsTask'[c] \in Stopped
        /\ wsLog'[c] = wsLog[c] \cup {IF wsCode[c] \in {1000, 1001} THEN "info" ELSE "warning"}
      ]_vars

\* Two connections closed with an expected and an unexpected code, both
\* signalled, deregistered and with their forwarders returned.
C11_Witness ==
    \E c, d \in WsIds :
        /\ wsCode[c] = 1001 /\ wsCode[d] = 1006
        /\ wsLog[c] = {"info"} /\ wsLog[d] = {"warning"}
        /\ \A e \in {c, d} :
            close_event[e] /\ ~Contains(ws_connections, e) /\ wsTask[e] = "done"

\* The step in which task t enters a broadcast loop.
BroadcastStarts(t) == tcpTask[t] # "send" /\ tcpTask'[t] = "send"

\* C12: a WebSocket closed with code 1000 or 1001 is never reported as the
\* unexpected kind, and once its closure has been reported it is no target of
\* a broadcast that starts.
C12_ExpectedCloseIsInfo ==
    [][/\ \A c \in WsIds : wsCode'[c] \in {1000, 1001} => "warning" \notin wsLog'[c]
       /\ \A t \in ProdIds : BroadcastStarts(t) =>
            \A c \in WsIds :
                wsCode[c] \in {1000, 1001} /\ wsLog[c] # {} => ~Contains(bc'[t].snap, c)
      ]_vars

\* The second half of C12 alone.
C12_NoTargetOnceReported ==
    [][\A t \in ProdIds : BroadcastStarts(t) =>
            \A c \in WsIds :
                wsCode[c] \in {1000, 1001} /\ wsLog[c] # {} => ~Contains(bc'[t].snap, c)
      ]_vars

\* C13: the completion signal of a WebSocket connection is unset while the
\* connection is open and stays set once it is set; accept_ws_connection has
\* not returned while the signal is unset; and a connection that has
\* terminated leads to its signal set and its accept handler returned.
C13_CompletionSignal ==
    /\ [](\A c \in WsIds : wsSock[c] = "open" => ~close_event[c])
    /\ [](\A c \in WsIds : wsAccept[c] = "returned" => close_event[c])
    /\ [][\A c \in WsIds : close_event[c] => close_event'[c]]_vars
    /\ \A c \in WsIds :
        (wsSock[c] = "closed") ~> (close_event[c] /\ wsAccept[c] = "returned")

\* The frame numbers of a sequence of messages are in ascending order.
Ascending(msgs) == \A i, j \in 1..Len(msgs) : i < j => msgs[i][2] < msgs[j][2]

\* C14: on the job port, a forwarder that waits for the token of its next
\* frame has obtained the conversion result of the frame before and ended its
\* broadcast; a broadcast under way carries the result of the latest frame
\* read; every WebSocket receives the results of one connection in frame
\* order; and while one connection waits for its conversion, the forwarder of
\* another connection can take its next step (read, convert or send).
C14_OneFrameInFlight ==
    \A t \in TcpIds :
        /\ tcpTask[t] = "token" /\ nRead[t] >= 1 =>
            /\ bc[t].conv \in {"gpgl", "gpgl_stderr"}
            /\ bc[t].data = <<t, nRead[t]>>
            /\ bc[t].cur = 0
        /\ tcpTask[t] = "send" => bc[t].data = <<t, nRead[t]>>
        /\ \A c \in WsIds :
            /\ Ascending(FromProducer(wsInbox[c], t))
            /\ \A i \in 1..Len(wsInbox[c]) :
                wsInbox[c][i][1] = t => wsInbox[c][i][2] <= nRead[t]
        /\ tcpTask[t] = "convert" =>
            \A u \in TcpIds \ {t} :
                /\ tcpTask[u] = "send" => ENABLED TryWriteToAllStep(u)
                /\ events < MaxEvents =>
                    /\ tcpTask[u] = "token" => ENABLED EmuReadToken(u)
                    /\ tcpTask[u] = "length" => ENABLED EmuReadLength(u)
                    /\ tcpTask[u] = "convert" => ENABLED EmuConvert(u)

\* One connection waits for its conversion while another, whose frame was
\* read and converted, is sending its result to a WebSocket.
C14_Witness ==
    \E t, u \in TcpIds, c \in WsIds :
        /\ t # u
        /\ tcpTask[t] = "convert"
        /\ tcpTask[u] = "send" /\ bc[u].cur = c /\ bc[u].data = <<u, 1>>

\* A WebSocket that was sent the results of two frames of one connection.
C14_TwoFrames ==
    \E t \in TcpIds, c \in WsIds : Len(FromProducer(wsInbox[c], t)) = 2

\* The messages two inboxes have in common are in the same order in both.
SameOrder(a, b) ==
    \A i, j \in 1..Len(a) : \A k, l \in 1..Len(b) :
        a[i] = b[k] /\ a[j] = b[l] /\ i < j => k < l

IsSuffix(a, b) == Len(a) <= Len(b) /\ a = SubSeq(b, Len(b) - Len(a) + 1, Len(b))

\* C15: in io/server.py, whenever no handler is running, of two registered
\* job-port connections the one registered later has been written exactly the
\* last messages written to the one registered earlier (every registered
\* connection is written message m before any is written the next), and any
\* two job-port connections were written their common messages in the same
\* order, whichever WebSocket they came from.
C15_SameOrderToAll ==
    \A t, u \in TcpIds :
        /\ SameOrder(tcpInbox[t], tcpInbox[u])
        /\ Before(tcp_connections, t, u) => IsSuffix(tcpInbox[u], tcpInbox[t])

\* Two job-port connections, the second registered after a first message,
\* written the messages of two different WebSocket producers.
C15_Witness ==
    \E c, d \in WsIds :
        /\ c # d
        /\ tcp_connections = <<1, 2>>
        /\ tcpInbox[1] = <<(<<c, 1>>), (<<d, 1>>), (<<c, 2>>)>>
        /\ tcpInbox[2] = <<(<<d, 1>>), (<<c, 2>>)>>

\* What decoding frame k of the stream has to give: the token's text and the
\* payload, the frame's len bytes behind its token and length fields.
SentJob(frames, k) ==
    [svg_uuid |-> TokenBytes(frames[k].token),
     svg_bytes |-> [from |-> Start(frames, k) + TOKEN_LEN + LEN_BYTES, n |-> frames[k].len]]

\* C16: however the stream of a client's frames is cut into segments, the
\* frames the job-port reader has received are the first frames the client
\* encoded, token and payload unchanged and in order, for payloads of 0, 1
\* and 2^20 bytes; the reader never takes a whole stream for a truncated one,
\* and when it sees the clean end of the stream it has received every frame.
C16_FrameRoundTrip ==
    /\ Len(wire.jobs) <= Len(wire.frames)
    /\ \A k \in 1..Len(wire.jobs) : wire.jobs[k] = SentJob(wire.frames, k)
    /\ wire.phase # "dropped"
    /\ wire.phase = "disconnected" => Len(wire.jobs) = Len(wire.frames)

\* Two frames sent back to back, with payloads of 2^20 bytes and of one byte,
\* both received, the reader at the clean end of the stream.
C16_Witness ==
    /\ wire.phase = "disconnected"
    /\ Len(wire.jobs) = 2
    /\ wire.jobs[1].svg_bytes.n = BigPayload
    /\ wire.jobs[2].svg_bytes.n = 1
    /\ wire.jobs[1].svg_uuid # wire.jobs[2].svg_uuid

\* C17: a forwarder never ends inside a broadcast loop, where it deals with
\* the connections of others: a TCP-side task awaiting a send to a WebSocket
\* and a WebSocket forwarder awaiting the drain of a TCP connection go on to
\* the next target or back to their own read.
C17_OnlyOwnConnectionEndsLoop ==
    [][/\ \A t \in ProdIds : tcpTask[t] = "send" => tcpTask'[t] \notin Stopped
       /\ \A c \in WsIds : wsTask[c] = "drain" => wsTask'[c] \notin Stopped
      ]_vars

\* C18: in the plain bridge, the step in which a TCP forwarder reads nothing
\* removes its connection from the TCP registry, for the only time, and ends
\* the forwarder with no exception; and from then on no step writes to that
\* connection or registers it again, whatever broadcast is under way.
C18_EofRemovesAndSilences ==
    [][\A t \in TcpIds :
        /\ tcpEnd[t] = "none" /\ tcpEnd'[t] = "clean" =>
            /\ Contains(tcp_connections, t)
            /\ tcp_connections' = ListRemove(tcp_connections, t)
            /\ tcpRemoves'[t] = 1
            /\ tcpTask'[t] = "done"
            /\ tcpExc'[t] = ""
        /\ tcpEnd[t] = "clean" =>
            /\ tcpInbox'[t] = tcpInbox[t]
            /\ ~Contains(tcp_connections', t)
      ]_vars

\* A broadcast that was suspended at the drain of one connection when another
\* connection of its loop was removed at end of stream, and has ended since.
C18_Witness ==
    \E c \in WsIds, t \in TcpIds :
        /\ Contains(fw[c].snap, t) /\ t \in fw[c].dereg
        /\ tcpEnd[t] = "clean" /\ tcpTask[t] = "done" /\ ~Contains(tcp_connections, t)
        /\ wsTask[c] = "recv" /\ fw[c].got # {} /\ t \notin fw[c].got
        /\ tcpInbox[t] = <<>>

\* C19: in io/server.py a raw-port connection is in no registry and is never
\* written to; its task never reads a frame or converts; a broadcast of its
\* task carries the chunk it read last, and it waits for its next read only
\* when the broadcast of the chunk before has ended; the steps that accept it
\* and that see it closed leave both registries as they are.
C19_RawPortBypass ==
    /\ [](\A r \in RawIds :
            /\ ~Contains(tcp_connections, r)
            /\ tcpInbox[r] = <<>>
            /\ tcpTask[r] \notin {"token", "length", "payload", "convert"}
            /\ bc[r].conv = "" /\ "converter" \notin tcpLog[r]
            /\ tcpTask[r] = "send" => bc[r].data = <<r, nRead[r]>>
            /\ tcpTask[r] = "read" /\ nRead[r] >= 1 =>
                bc[r].data = <<r, nRead[r]>> /\ bc[r].cur = 0
            /\ \A c \in WsIds : Ascending(FromProducer(wsInbox[c], r)))
    /\ [][\A r \in RawIds :
            (tcpTask[r] = "unborn" /\ tcpTask'[r] # "unborn")
                \/ (tcpEnd[r] = "none" /\ tcpEnd'[r] # "none") =>
            ws_connections' = ws_connections /\ tcp_connections' = tcp_connections
         ]_vars

\* A raw-port connection that sent two chunks to a WebSocket and was closed,
\* while a job-port connection was written a WebSocket's message.
C19_Witness ==
    \E r \in RawIds, c \in WsIds, t \in TcpIds :
        /\ tcpTask[r] = "done" /\ tcpEnd[r] = "clean"
        /\ FromProducer(wsInbox[c], r) = <<(<<r, 1>>), (<<r, 2>>)>>
        /\ Contains(ws_connections, c)
        /\ Contains(tcp_connections, t) /\ tcpInbox[t] # <<>>
        /\ tcpInbox[r] = <<>>

NoDuplicates(list) == \A i, j \in 1..Len(list) : i # j => list[i] # list[j]

\* C20: each registry holds a connection at most once; no connection is sent
\* or written the payload of one broadcast twice; and the connection a
\* broadcast is sending to is not one it has sent to or failed on before.
C20_AtMostOnce ==
    /\ NoDuplicates(ws_connections)
    /\ NoDuplicates(tcp_connections)
    /\ \A c \in WsIds : NoDuplicates(wsInbox[c])
    /\ \A t \in ProdIds : NoDuplicates(tcpInbox[t])
    /\ \A t \in ProdIds : tcpTask[t] = "send" => bc[t].cur \notin bc[t].got \cup bc[t].failed
    /\ \A c \in WsIds : wsTask[c] = "drain" => fw[c].cur \notin fw[c].got \cup fw[c].failed

\* A broadcast that has returned, during which one connection joined the
\* registry and was sent the payload and another left the registry.
C20_Witness ==
    \E t \in ProdIds :
        /\ BroadcastReturned(t)
        /\ bc[t].dereg # {}
        /\ \E c \in bc[t].got : ~Contains(bc[t].snap, c) /\ wsInbox[c] = <<bc[t].data>>

\* The payload of frame k of the stream svg_input/server.py reads.
SvgSent(frames, k) == [from |-> SvgStart(frames, k) + LEN_BYTES, n |-> frames[k].len]

IsPrefix(a, b) == Len(a) <= Len(b) /\ a = SubSeq(b, 1, Len(a))

\* The frames of the stream that have arrived completely.
SvgComplete ==
    {k \in 1..Len(wire.frames) : SvgStart(wire.frames, k + 1) <= wire.arrived}

\* The parts of C21 about order: the payloads received are the payloads of
\* the first frames of the stream, all of them arrived completely; they are
\* converted and then forwarded in that order, once each, one at a time; and
\* a handler that reads or has returned has no frame in hand.
C21_InOrderOneAtATime ==
    /\ \A k \in 1..Len(wire.received) :
        k \in SvgComplete /\ wire.received[k] = SvgSent(wire.frames, k)
    /\ IsPrefix(wire.converted, wire.received)
    /\ IsPrefix(wire.forwarded, wire.converted)
    /\ Len(wire.received) <= Len(wire.forwarded) + 1
    /\ wire.phase \in {"length", "payload", "returned"} => wire.forwarded = wire.received
    /\ wire.phase = "convert" => wire.converted = wire.forwarded
    /\ wire.phase = "forward" => wire.converted = wire.received

\* C21: in svg_input/server.py the frames received are converted and then
\* forwarded in arrival order, once each and one at a time; an incomplete
\* read ends the loop with nothing converted or forwarded for the incomplete
\* frame; and every frame received completely is converted and forwarded: the
\* handler stops only by returning on an incomplete read, with every frame it
\* received forwarded.
C21_EveryFrameForwarded ==
    /\ C21_InOrderOneAtATime
    /\ wire.phase # "crashed"
    /\ wire.phase = "returned" => wire.eof /\ wire.forwarded = wire.received

\* A handler that forwarded one frame and returned on the truncated payload
\* of the next.
C21_ReturnedOnTruncation ==
    /\ wire.phase = "returned"
    /\ Len(wire.forwarded) = 1
    /\ wire.arrived > SvgStart(wire.frames, 2) + LEN_BYTES
    /\ wire.arrived < SvgTotal(wire.frames)

====
